---- MODULE Spec2Model ----
(***************************************************************************)
(* Model of nuclei_monitoring.py: one invocation of main() after another   *)
(* against a remote template repository that receives commits between the *)
(* invocations.  The state is the remote history, the working tree of the  *)
(* mirror, the cache file on disk and the locals of the running main().    *)
(***************************************************************************)
EXTENDS Integers, Sequences, FiniteSets

(* ------------------------------ bounds -------------------------------- *)
MaxCommits == 2     \* commits the remote receives in one behaviour
MaxRuns    == 2     \* invocations of main() in one behaviour
MaxNow     == 6     \* the clock stops here (hours)
TickHours  == 3     \* the clock advances in steps of this many hours

(* ------------------------- program constants -------------------------- *)
WindowHours == 4    \* get_commits_by_date(repo, 4)

(* --------------------------- text and values --------------------------- *)
\* A Python str is modelled as the list of its '/'-separated segments; a
\* segment is its stem and the extension after its last dot.
Seg(stem, ext) == [stem |-> stem, ext |-> ext]
Str(s) == <<Seg(s, "")>>

\* Python values held by a template's attributes.
PyNone      == [k |-> "none", text |-> <<>>, ts |-> 0]
PyStr(text) == [k |-> "str", text |-> text, ts |-> 0]
PyDate(t)   == [k |-> "datetime", text |-> <<>>, ts |-> t]
Truthy(v)   == \/ v.k = "datetime"
               \/ v.k = "str" /\ v.text # <<>>

\* datetime.isoformat() / datetime.fromisoformat(): the text of an aware UTC
\* datetime carries the instant; any other text is not a date.
isoformat(d) == [k |-> "str", text |-> Str("<isoformat>"), ts |-> d.ts]
IsIsoText(s) == s.k = "str" /\ s.text = Str("<isoformat>")
fromisoformat(s) == PyDate(s.ts)

(* ------------------------------- paths -------------------------------- *)
PathA  == <<Seg("cves", ""), Seg("a", "yaml")>>
PathB  == <<Seg("dns", ""), Seg("b", "yaml")>>
PathMd == <<Seg("README", "md")>>
\* The order in which git reports the changed paths of a commit.
PathOrder == <<PathMd, PathA, PathB>>
Paths     == {PathOrder[i] : i \in 1..Len(PathOrder)}
Last(s)   == s[Len(s)]
EndsWithYaml(path) == Last(path).ext = "yaml"
YamlPaths == {p \in Paths : EndsWithYaml(p)}

\* The changed paths of a commit, as commit.stats.files lists them.
FilesOf(set) == LET idx == {i \in 1..Len(PathOrder) : PathOrder[i] \in set}
                    RECURSIVE Build(_)
                    Build(i) == IF i > Len(PathOrder) THEN <<>>
                                ELSE (IF i \in idx THEN <<PathOrder[i]>> ELSE <<>>)
                                     \o Build(i + 1)
                IN  Build(1)
\* The commits of the model: any rule files, or every path (a commit that also changes
\* a file that is no rule file).
CommitFileLists == {FilesOf(s) : s \in ((SUBSET YamlPaths) \ {{}}) \cup {Paths}}

(* ---------------------------- file contents ---------------------------- *)
Absent == "<absent>"
Missing   == [kind |-> "missing", id |-> Absent, severity |-> Absent, description |-> Absent]
Malformed == [kind |-> "malformed", id |-> Absent, severity |-> Absent, description |-> Absent]
EmptyDoc  == [kind |-> "empty", id |-> Absent, severity |-> Absent, description |-> Absent]
DocWithId == [kind |-> "doc", id |-> "cve-1", severity |-> "high", description |-> "rce"]
DocNoId   == [kind |-> "doc", id |-> Absent, severity |-> Absent, description |-> Absent]
Contents  == {Missing, Malformed, EmptyDoc, DocWithId, DocNoId}

WorkingDir == <<Seg("repo", "")>>
RawUrlPrefix == <<Seg("https:", ""), Seg("", ""), Seg("raw.githubusercontent", "com"),
                  Seg("projectdiscovery", ""), Seg("nuclei-templates", ""), Seg("main", "")>>

VARIABLES
    tree,           \* working tree of the mirror: yaml path -> content
    history,        \* commits of the repository, oldest first: [ts, files]
    now,            \* the clock, in hours
    mirror,         \* os.path.exists(repo_path)
    cacheFile,      \* templates_cache.json: [exists, lines]
    pc,             \* position of main()
    runs,           \* invocations started so far
    exit,           \* outcome of the last invocation: "none", "zero", "nonzero"
    syncFailed,     \* the running invocation's clone or pull failed
    commits,        \* all_commits: indices into history, in iteration order
    ci, fi,         \* the loops of find_templates_in_commits: commit, file
    new_templates,  \* the dict of find_templates_in_commits, in insertion order
    processed,      \* <<commit, path>> pairs that went through lines 117-125
    lookupFailed,   \* <<commit, path>> pairs whose history query raised
    templates,      \* main's local: [bound, list]
    printed,        \* <<name, status>> pairs printed by main
    cacheAtStart,   \* cacheFile when the running invocation started
    commitsAtStart, \* Len(history) when the running invocation started
    prev            \* the invocation before it: [exit, templates, cache, ncommits]

vars == <<tree, history, now, mirror, cacheFile, pc, runs, exit, syncFailed, commits,
          ci, fi, new_templates, processed, lookupFailed, templates, printed, cacheAtStart,
          commitsAtStart, prev>>


(* --------------------------- NucleiTemplate ---------------------------- *)
NoTemplate == [commit_date |-> PyNone, filepath |-> PyNone, raw_url |-> PyNone,
               name |-> PyNone, category |-> PyNone, severity |-> PyNone,
               description |-> PyNone, status |-> PyNone]

\* open(self.filepath): the file under the mirror's working directory.
ReadFile(filepath) ==
    LET rel == SubSeq(filepath.text, Len(WorkingDir) + 1, Len(filepath.text))
    IN  IF filepath.k = "str" /\ rel \in DOMAIN tree THEN tree[rel] ELSE Missing

\* data.get(key, default)
Get(value, default) == IF value = Absent THEN PyStr(Str(default)) ELSE PyStr(Str(value))

\* load_attributes: raises unless the file exists and parses to a mapping.
load_attributes(filepath) ==
    LET data == ReadFile(filepath)
    IN  IF data.kind # "doc"
        THEN [ok |-> FALSE, name |-> PyNone, severity |-> PyNone, description |-> PyNone]
        ELSE [ok |-> TRUE,
              name |-> Get(data.id, "Unknown"),
              severity |-> Get(data.severity, "Unknown"),
              description |-> Get(data.description, "No description available.")]

extract_category_from_url(url) ==
    LET parts == url.text
        hits  == {i \in 1..Len(parts) : parts[i] = Seg("main", "")}
        main_index == CHOOSE i \in hits : \A j \in hits : i <= j
    IN  IF Truthy(url) /\ hits # {} /\ main_index + 1 <= Len(parts)
        THEN PyStr(<<parts[main_index + 1]>>)
        ELSE PyStr(Str("Uncategorized"))

\* NucleiTemplate(filepath, raw_url, commit_date, status): [ok, t]
NucleiTemplate(filepath, raw_url, commit_date, status) ==
    LET attrs == load_attributes(filepath)
    IN  [ok |-> attrs.ok,
         t  |-> [commit_date |-> commit_date, filepath |-> filepath, raw_url |-> raw_url,
                 name |-> attrs.name, category |-> extract_category_from_url(raw_url),
                 severity |-> attrs.severity, description |-> attrs.description,
                 status |-> status]]

unique_id(t) == t.name

(* -------------------------------- JSON --------------------------------- *)
\* A line of text is its indentation and its JSON tokens.
Punct(c)   == [t |-> c, v |-> PyNone]
StrTok(v)  == [t |-> "string", v |-> v]
NullTok    == [t |-> "null", v |-> PyNone]
JsonValue(v) == IF v.k = "none" THEN NullTok ELSE StrTok(v)
Line(indent, toks) == [indent |-> indent, toks |-> toks]
strip(line) == [line EXCEPT !.indent = 0]

\* self.__dict__ in attribute order, as <<key, value>> pairs.
Items(t) == << <<"commit_date", t.commit_date>>, <<"filepath", t.filepath>>,
               <<"raw_url", t.raw_url>>, <<"name", t.name>>,
               <<"category", t.category>>, <<"severity", t.severity>>,
               <<"description", t.description>>, <<"status", t.status>> >>

\* json.dumps(obj_dict, indent=4): one line per brace and per member.
JsonDumpsIndent(items) ==
    <<Line(0, <<Punct("{")>>)>>
    \o [i \in 1..Len(items) |->
          Line(4, <<StrTok(PyStr(Str(items[i][1]))), Punct(":"), JsonValue(items[i][2])>>
                  \o (IF i < Len(items) THEN <<Punct(",")>> ELSE <<>>))]
    \o <<Line(0, <<Punct("}")>>)>>

\* to_json: the lines of the serialised object.
to_json(t) ==
    LET obj_dict == [i \in 1..Len(Items(t)) |->
                       IF Items(t)[i][1] = "commit_date"
                       THEN <<"commit_date",
                              IF Truthy(t.commit_date) THEN isoformat(t.commit_date) ELSE PyNone>>
                       ELSE Items(t)[i]]
    IN  JsonDumpsIndent(obj_dict)

\* json.loads(text): a complete object  { k : v , k : v }  or a JSONDecodeError.
JsonLoads(line) ==
    LET toks == line.toks
        n    == Len(toks)
        body == SubSeq(toks, 2, n - 1)
        m    == Len(body)
        wellFormed ==
            /\ n >= 2 /\ toks[1] = Punct("{") /\ toks[n] = Punct("}")
            /\ \/ m = 0
               \/ /\ (m + 1) % 4 = 0
                  /\ \A i \in 1..m :
                        CASE i % 4 = 1 -> body[i].t = "string"
                          [] i % 4 = 2 -> body[i] = Punct(":")
                          [] i % 4 = 3 -> body[i].t \in {"string", "null"}
                          [] OTHER     -> body[i] = Punct(",")
    IN  IF wellFormed
        THEN [ok |-> TRUE,
              dict |-> [g \in 1..((m + 1) \div 4) |->
                          <<body[4 * g - 3].v.text[1].stem, body[4 * g - 1].v>>]]
        ELSE [ok |-> FALSE, dict |-> <<>>]

InitParams == {"filepath", "raw_url", "commit_date", "status"}
Keys(dict) == {dict[i][1] : i \in 1..Len(dict)}
Lookup(dict, key) ==
    IF key \in Keys(dict) THEN (dict[CHOOSE i \in 1..Len(dict) : dict[i][1] = key])[2]
    ELSE PyNone

\* from_json: [ok, t]; not ok when json.loads, the 'commit_date' lookup, the
\* date parse or the constructor call raises.
from_json(line) ==
    LET parsed == JsonLoads(line)
        d      == parsed.dict
        cd     == Lookup(d, "commit_date")
        built  == NucleiTemplate(Lookup(d, "filepath"), Lookup(d, "raw_url"),
                                 IF Truthy(cd) THEN fromisoformat(cd) ELSE PyNone,
                                 Lookup(d, "status"))
    IN  IF /\ parsed.ok
           /\ "commit_date" \in Keys(d)
           /\ (Truthy(cd) => IsIsoText(cd))
           /\ Keys(d) \subseteq InitParams
           /\ "filepath" \in Keys(d)
           /\ built.ok
        THEN built
        ELSE [ok |-> FALSE, t |-> NoTemplate]

\* save_templates_to_json: open(path, 'w') truncates or creates the file, then
\* every template's to_json() + "\n" is written.
RECURSIVE SerializeAll(_)
SerializeAll(list) ==
    IF list = <<>> THEN <<>> ELSE to_json(Head(list)) \o SerializeAll(Tail(list))

\* Mutant: nothing is opened when there is nothing to write.
save_skip_empty(list, file) ==
    IF list = <<>> THEN file ELSE [exists |-> TRUE, lines |-> SerializeAll(list)]

save_templates_to_json(list, file) == [exists |-> TRUE, lines |-> SerializeAll(list)]

\* load_templates_from_json: [ok, list]; the first line that fails raises.
RECURSIVE load_templates_from_json(_)
load_templates_from_json(lines) ==
    IF lines = <<>> THEN [ok |-> TRUE, list |-> <<>>]
    ELSE LET first == from_json(strip(Head(lines)))
             rest  == load_templates_from_json(Tail(lines))
         IN  IF first.ok /\ rest.ok
             THEN [ok |-> TRUE, list |-> <<first.t>> \o rest.list]
             ELSE [ok |-> FALSE, list |-> <<>>]


(* ------------------------- the version-control source ------------------ *)
\* Mutant: the date of the oldest commit of the repository instead of the commit's own.
commit_date_oldest(commit) == PyDate(history[1].ts)

\* commit.committed_datetime.astimezone(timezone.utc)
commit_date_of(commit) == PyDate(commit.ts)

\* repo.iter_commits(since=start_date, until=end_date)
InWindow(hours_ago) ==
    {i \in 1..Len(history) : now - hours_ago <= history[i].ts /\ history[i].ts <= now}

Touches(i, path) == \E j \in 1..Len(history[i].files) : history[i].files[j] = path

\* list(repo.iter_commits(paths=file_path))
commits_for_file(file_path) == {i \in 1..Len(history) : Touches(i, file_path)}

\* Mutant: any file with a history counts as new.
is_template_new_any(file_path) == Cardinality(commits_for_file(file_path)) >= 1

is_template_new(file_path) == Cardinality(commits_for_file(file_path)) = 1

Orders(S) == {o \in [1..Cardinality(S) -> S] : \A i, j \in 1..Cardinality(S) : o[i] = o[j] => i = j}

(* --------------------- find_templates_in_commits ----------------------- *)
KeyIndex(d, name) ==
    IF \E i \in 1..Len(d) : unique_id(d[i]) = name
    THEN CHOOSE i \in 1..Len(d) : unique_id(d[i]) = name
    ELSE 0

\* new_templates[name] = template
DictSet(d, name, t) ==
    IF KeyIndex(d, name) = 0 THEN Append(d, t) ELSE [d EXCEPT ![KeyIndex(d, name)] = t]

\* Mutant: a record of the same age replaces the stored one.
NewerOrEqual(cd, existing) == cd.ts >= existing.ts

\* commit_date > new_templates[template.name].commit_date
Newer(cd, existing) == cd.ts > existing.ts

\* template.name not in new_templates or commit_date > ...commit_date
ShouldStore(d, t) ==
    IF KeyIndex(d, unique_id(t)) = 0 THEN TRUE
    ELSE Newer(t.commit_date, d[KeyIndex(d, unique_id(t))].commit_date)

CurCommit == history[commits[ci]]
CurFile   == CurCommit.files[fi]
CurTemplate ==
    NucleiTemplate(PyStr(WorkingDir \o CurFile), PyStr(RawUrlPrefix \o CurFile),
                   commit_date_of(CurCommit), PyNone)

NextFile ==
    IF fi < Len(CurCommit.files) THEN ci' = ci /\ fi' = fi + 1
    ELSE ci' = ci + 1 /\ fi' = 1

NextCommit == ci' = ci + 1 /\ fi' = 1

StatusOf(file_path) == PyStr(Str(IF is_template_new(file_path) THEN "new" ELSE "modified"))

TypeOK ==
    /\ tree \in [YamlPaths -> Contents]
    /\ now \in 0..MaxNow
    /\ mirror \in BOOLEAN
    /\ pc \in {"idle", "load", "sync", "window", "scan", "save", "print"}
    /\ runs \in 0..MaxRuns
    /\ exit \in {"none", "zero", "nonzero"}
    /\ Len(history) <= MaxCommits

Init ==
    /\ tree \in [YamlPaths -> Contents]
    /\ history = <<>>
    /\ now = 0
    /\ mirror = FALSE
    /\ cacheFile = [exists |-> FALSE, lines |-> <<>>]
    /\ pc = "idle"
    /\ runs = 0
    /\ exit = "none"
    /\ syncFailed = FALSE
    /\ commits = <<>>
    /\ ci = 1 /\ fi = 1
    /\ new_templates = <<>>
    /\ processed = {}
    /\ lookupFailed = {}
    /\ templates = [bound |-> FALSE, list |-> <<>>]
    /\ printed = <<>>
    /\ cacheAtStart = [exists |-> FALSE, lines |-> <<>>]
    /\ commitsAtStart = 0
    /\ prev = [exit |-> "none", templates |-> [bound |-> FALSE, list |-> <<>>],
               cache |-> [exists |-> FALSE, lines |-> <<>>], ncommits |-> 0]

(* ----------------------------- environment ----------------------------- *)
scanVars == <<commits, ci, fi, new_templates, processed, lookupFailed>>
runVars  == <<runs, exit, syncFailed, templates, printed, cacheAtStart, commitsAtStart, prev>>

\* A commit reaches the remote repository between two invocations.
Push(files) ==
    /\ pc = "idle"
    /\ runs < MaxRuns
    /\ Len(history) < MaxCommits
    /\ history' = Append(history, [ts |-> now, files |-> files])
    /\ UNCHANGED <<tree, now, mirror, cacheFile, pc, scanVars, runVars>>

\* Time passes between two invocations; the clock starts with the first commit.
Tick ==
    /\ pc = "idle"
    /\ runs < MaxRuns
    /\ history # <<>>
    /\ now + TickHours <= MaxNow
    /\ now' = now + TickHours
    /\ UNCHANGED <<tree, history, mirror, cacheFile, pc, scanVars, runVars>>

(* -------------------------------- main --------------------------------- *)
\* The process ends: its locals are gone, its exit status stays.
EndRun(status) ==
    /\ pc' = "idle"
    /\ exit' = status
    /\ commits' = <<>> /\ ci' = 1 /\ fi' = 1 /\ new_templates' = <<>>
    /\ processed' = {} /\ lookupFailed' = {}

\* os.path.exists(json_file_path) and os.path.getsize(json_file_path) > 0
CacheUsable(file) == file.exists /\ Len(file.lines) > 0

\* main() starts and chooses between the cache and the repository.
MainStart ==
    /\ pc = "idle"
    /\ runs < MaxRuns
    /\ runs' = runs + 1
    /\ prev' = [exit |-> exit, templates |-> templates, cache |-> cacheFile,
                ncommits |-> commitsAtStart]
    /\ cacheAtStart' = cacheFile
    /\ commitsAtStart' = Len(history)
    /\ exit' = "none"
    /\ syncFailed' = FALSE
    /\ templates' = [bound |-> FALSE, list |-> <<>>]
    /\ printed' = <<>>
    /\ pc' = IF CacheUsable(cacheFile) THEN "load" ELSE "sync"
    /\ UNCHANGED <<tree, history, now, mirror, cacheFile, scanVars>>

\* templates = load_templates_from_json(json_file_path); an exception ends main.
LoadCache ==
    /\ pc = "load"
    /\ LET r == load_templates_from_json(cacheFile.lines)
       IN  IF r.ok
           THEN /\ templates' = [bound |-> TRUE, list |-> r.list]
                /\ pc' = "print"
                /\ UNCHANGED <<exit, scanVars>>
           ELSE /\ EndRun("nonzero")
                /\ UNCHANGED templates
    /\ UNCHANGED <<tree, history, now, mirror, cacheFile, runs, syncFailed, printed,
                   cacheAtStart, commitsAtStart, prev>>

\* clone_or_update_repository: Repo.clone_from raises GitCommandError; None is returned
\* and main goes on to its loop over templates.
CloneFail ==
    /\ pc = "sync"
    /\ ~mirror
    /\ syncFailed' = TRUE
    /\ pc' = "print"
    /\ UNCHANGED <<tree, history, now, mirror, cacheFile, scanVars, runs, exit, templates,
                   printed, cacheAtStart, commitsAtStart, prev>>

\* clone_or_update_repository: origin.pull() raises; nothing catches it.
PullFail ==
    /\ pc = "sync"
    /\ mirror' = TRUE
    /\ syncFailed' = TRUE
    /\ EndRun("nonzero")
    /\ UNCHANGED <<tree, history, now, cacheFile, runs, templates, printed, cacheAtStart,
                   commitsAtStart, prev>>

\* clone_or_update_repository returns the repository.
SyncOk ==
    /\ pc = "sync"
    /\ mirror' = TRUE
    /\ pc' = "window"
    /\ UNCHANGED <<tree, history, now, cacheFile, scanVars, runVars>>

\* all_commits = get_commits_by_date(repo, 4), in the order the repository lists them;
\* find_templates_in_commits starts with an empty dict.
GetCommits ==
    /\ pc = "window"
    /\ commits' \in Orders(InWindow(WindowHours))
    /\ ci' = 1 /\ fi' = 1
    /\ new_templates' = <<>>
    /\ processed' = {}
    /\ lookupFailed' = {}
    /\ pc' = "scan"
    /\ UNCHANGED <<tree, history, now, mirror, cacheFile, runVars>>

\* One pass of the inner loop: a changed file of the current commit.
ScanFile ==
    /\ pc = "scan"
    /\ ci <= Len(commits)
    /\ IF ~EndsWithYaml(CurFile)
       THEN NextFile /\ UNCHANGED <<new_templates, processed>>
       ELSE IF ~CurTemplate.ok
       THEN NextCommit /\ UNCHANGED <<new_templates, processed>>
       ELSE /\ NextFile
            /\ processed' = processed \cup {<<commits[ci], CurFile>>}
            /\ new_templates' =
                 IF ShouldStore(new_templates, CurTemplate.t)
                 THEN DictSet(new_templates, unique_id(CurTemplate.t),
                              [CurTemplate.t EXCEPT !.status = StatusOf(CurFile)])
                 ELSE new_templates
    /\ UNCHANGED <<tree, history, now, mirror, cacheFile, pc, commits, lookupFailed, runVars>>

\* is_template_new raises (the history query fails): the except clause of the commit
\* loop takes over.
ScanHistoryError ==
    /\ pc = "scan"
    /\ ci <= Len(commits)
    /\ EndsWithYaml(CurFile)
    /\ CurTemplate.ok
    /\ ShouldStore(new_templates, CurTemplate.t)
    /\ NextCommit
    /\ lookupFailed' = lookupFailed \cup {<<commits[ci], CurFile>>}
    /\ UNCHANGED <<tree, history, now, mirror, cacheFile, pc, commits, new_templates,
                   processed, runVars>>

\* return list(new_templates.values())
ScanDone ==
    /\ pc = "scan"
    /\ ci > Len(commits)
    /\ templates' = [bound |-> TRUE, list |-> new_templates]
    /\ pc' = "save"
    /\ UNCHANGED <<tree, history, now, mirror, cacheFile, scanVars, runs, exit, syncFailed,
                   printed, cacheAtStart, commitsAtStart, prev>>

\* save_templates_to_json(templates, json_file_path)
Save ==
    /\ pc = "save"
    /\ cacheFile' = save_templates_to_json(templates.list, cacheFile)
    /\ pc' = "print"
    /\ UNCHANGED <<tree, history, now, mirror, scanVars, runVars>>

\* Mutant: the loop over an unbound local passes for an empty loop.
ExitStatusAlwaysZero(tpl) == "zero"

\* for template in templates: an unbound local raises, or every template is printed.
ExitStatus(tpl) == IF tpl.bound THEN "zero" ELSE "nonzero"

Report ==
    /\ pc = "print"
    /\ printed' = IF templates.bound
                  THEN [i \in 1..Len(templates.list) |->
                          <<templates.list[i].name, templates.list[i].status>>]
                  ELSE <<>>
    /\ EndRun(ExitStatus(templates))
    /\ UNCHANGED <<tree, history, now, mirror, cacheFile, runs, syncFailed, templates,
                   cacheAtStart, commitsAtStart, prev>>

Next ==
    \/ \E files \in CommitFileLists : Push(files)
    \/ Tick
    \/ MainStart
    \/ LoadCache
    \/ CloneFail
    \/ PullFail
    \/ SyncOk
    \/ GetCommits
    \/ ScanFile
    \/ ScanHistoryError
    \/ ScanDone
    \/ Save
    \/ Report

Spec == Init /\ [][Next]_vars


(* ------------------------------- claims -------------------------------- *)
RelPath(t) == SubSeq(t.filepath.text, Len(WorkingDir) + 1, Len(t.filepath.text))
Registry   == {new_templates[i] : i \in 1..Len(new_templates)}
ScanOver   == pc = "save"
Max(S)     == CHOOSE x \in S : \A y \in S : y <= x
Min(S)     == CHOOSE x \in S : \A y \in S : x <= y
Parseable(path) == EndsWithYaml(path) /\ tree[path].kind = "doc"
IdOf(path) == Get(tree[path].id, "Unknown")
\* Timestamps of the commits from which a file with this identifier was merged.
MergedTimes(name) == {history[q[1]].ts : q \in {r \in processed : IdOf(r[2]) = name}}
\* Timestamps of the commits from which this file was merged.
MergedTimesOfFile(path) == {history[q[1]].ts : q \in {r \in processed : r[2] = path}}
\* Commits of the scanned window that changed this file.
WindowCommitsOf(path) == {i \in 1..Len(commits) : Touches(commits[i], path)}
\* Files recorded in the cache file.
CachePaths ==
    {SubSeq(l.toks[3].v.text, Len(WorkingDir) + 1, Len(l.toks[3].v.text)) :
        l \in {cacheFile.lines[i] : i \in {j \in 1..Len(cacheFile.lines) :
                 /\ Len(cacheFile.lines[j].toks) >= 3
                 /\ cacheFile.lines[j].toks[1] = StrTok(PyStr(Str("filepath")))}}}
\* An invocation has ended and nothing has reached the repository since it started.
RunEnded == pc = "idle" /\ runs >= 1 /\ Len(history) = commitsAtStart

\* C1: a run whose sync does not fail leaves every parseable rule file changed by a
\* commit of its window in the persisted cache, also when a non-empty cache existed
\* before the run.  Stated for the runs that start with a non-empty cache.
C1_WindowFilesCached ==
    (RunEnded /\ ~syncFailed /\ CacheUsable(cacheAtStart)) =>
        \A c \in InWindow(WindowHours) : \A j \in 1..Len(history[c].files) :
            Parseable(history[c].files[j]) => history[c].files[j] \in CachePaths

\* C2: the registry holds one record per identifier, the record carries the greatest
\* commit timestamp among the commits merged for that identifier, in whatever order the
\* commits are iterated, and a stored record is replaced only by a strictly newer one.
C2_OnePerIdNewest ==
    /\ \A i, j \in 1..Len(new_templates) :
          unique_id(new_templates[i]) = unique_id(new_templates[j]) => i = j
    /\ \A q \in processed : \E t \in Registry : unique_id(t) = IdOf(q[2])
    /\ \A t \in Registry :
          /\ MergedTimes(unique_id(t)) # {}
          /\ t.commit_date.ts = Max(MergedTimes(unique_id(t)))

C2_ReplacedOnlyByNewer ==
    \A i \in 1..Len(new_templates) :
        (i <= Len(new_templates') /\ new_templates'[i] # new_templates[i]) =>
            /\ unique_id(new_templates'[i]) = unique_id(new_templates[i])
            /\ new_templates'[i].commit_date.ts > new_templates[i].commit_date.ts

\* C2: merge monotonicity: in every state the registry holds one record per identifier
\* carrying the greatest merged commit timestamp, and every step that changes a stored
\* record replaces it by a strictly newer one.
C2_MergeMonotonic == [](C2_OnePerIdNewest) /\ [][C2_ReplacedOnlyByNewer]_vars

\* C2 witness: the scan is over, two commits with different timestamps were merged for
\* one identifier and the newer of the two was iterated first.
C2_Witness ==
    /\ ScanOver
    /\ \E a, b \in 1..Len(commits) : \E p, q \in YamlPaths :
          /\ a < b
          /\ history[commits[a]].ts > history[commits[b]].ts
          /\ <<commits[a], p>> \in processed /\ <<commits[b], q>> \in processed
          /\ IdOf(p) = IdOf(q)

\* C3: saving a registry and loading the file again succeeds and yields the records
\* that were saved, field for field.
C3_RoundTrip ==
    ScanOver =>
        LET saved  == save_templates_to_json(templates.list, cacheFile)
            loaded == load_templates_from_json(saved.lines)
        IN  loaded.ok /\ loaded.list = templates.list

\* C4: a second run with no commit added since the first run, and whose own sync does
\* not fail, completes and leaves the registry and the persisted cache as the first run
\* left them.
C4_Idempotent ==
    (/\ RunEnded /\ runs >= 2 /\ ~syncFailed
     /\ prev.exit = "zero" /\ prev.ncommits = commitsAtStart) =>
        /\ exit = "zero"
        /\ templates = prev.templates
        /\ cacheFile = prev.cache

\* C5: a failing file is the only file skipped: every parseable rule file of every
\* commit of the window whose own history query did not fail is processed.
C5_PerFileIsolation ==
    ScanOver =>
        \A i \in 1..Len(commits) : \A j \in 1..Len(history[commits[i]].files) :
            LET path == history[commits[i]].files[j]
            IN  (Parseable(path) /\ <<commits[i], path>> \notin lookupFailed)
                    => <<commits[i], path>> \in processed

\* C6: when the clone or the pull fails the run ends with a non-zero status, nothing is
\* scanned or printed, and the cache file is what it was when the run started.
C6_SyncFailureAborts ==
    syncFailed =>
        /\ pc \in {"print", "idle"}
        /\ pc = "idle" => exit = "nonzero"
        /\ cacheFile = cacheAtStart
        /\ new_templates = <<>> /\ processed = {} /\ commits = <<>>
        /\ templates.list = <<>>
        /\ printed = <<>>

\* C6 witness: a run has ended on a failed sync while the window held a parseable file.
C6_Witness ==
    /\ RunEnded /\ syncFailed /\ exit = "nonzero"
    /\ \E c \in InWindow(WindowHours) : \E j \in 1..Len(history[c].files) :
          Parseable(history[c].files[j])

\* C7: every record of the registry has status "new" if exactly one commit of the full
\* history touches its path and "modified" otherwise; none has an unset status.
C7_Classification ==
    \A t \in Registry :
        /\ t.status \in {PyStr(Str("new")), PyStr(Str("modified"))}
        /\ t.status = PyStr(Str("new"))
              <=> Cardinality({i \in 1..Len(history) : Touches(i, RelPath(t))}) = 1

\* C7 witness: the scan is over with a "new" record and a "modified" record.
C7_Witness ==
    /\ ScanOver
    /\ \E t, u \in Registry : t.status = PyStr(Str("new")) /\ u.status = PyStr(Str("modified"))

C9_EmptySaveIsNoOp ==
    (pc = "print" /\ templates.bound /\ templates.list = <<>>) => cacheFile = cacheAtStart

\* C9 (amended): saving an empty registry leaves an existing, empty cache file (created
\* when there was none), and no step replaces a non-empty cache file by an empty one.
C9_EmptySaveWritesEmptyFile ==
    [][/\ (pc = "save" /\ templates.list = <<>>)
            => cacheFile' = [exists |-> TRUE, lines |-> <<>>]
       /\ CacheUsable(cacheFile) => CacheUsable(cacheFile')]_vars

\* C9 witness: an empty registry has been saved where no cache file existed.
C9_Witness ==
    /\ pc = "print" /\ templates.bound /\ templates.list = <<>>
    /\ ~cacheAtStart.exists
    /\ cacheFile = [exists |-> TRUE, lines |-> <<>>]

\* C10: a record's identifier is the top-level id of its file or, without one, the base
\* name of the file with the extension stripped.
C10_IdentifierFallback ==
    ScanOver =>
        \A t \in Registry :
            unique_id(t) = IF tree[RelPath(t)].id # Absent
                           THEN PyStr(Str(tree[RelPath(t)].id))
                           ELSE PyStr(Str(Last(RelPath(t)).stem))

====
